---- MODULE Spec2Model ----
(***************************************************************************)
(* State-machine model of src/server.py (class ChatServer): the registry   *)
(* maps guarded by self.lock, the per-connection handler threads           *)
(* (_handle_client / _handle_login / _process_command), the message        *)
(* routines (_send, _broadcast, _send_private), the teardown               *)
(* (_remove_client), the idle reaper (_check_idle_clients) and stop().     *)
(*                                                                         *)
(* Threads: one handler per connection (its id is the connection's id),    *)
(* the reaper thread and the main thread.  Every lock acquisition is a     *)
(* step guarded by lock = Free; a critical section that performs socket    *)
(* sends keeps the lock over one step per send, as the code does.          *)
(*                                                                         *)
(* A received line is a sequence of tokens; the token " " is one blank.    *)
(* Each recv delivers one line.  A send appends to the connection's wire   *)
(* when the socket is open and fails (exception swallowed) otherwise.      *)
(* Dict iteration is modelled in ascending key order.                      *)
(***************************************************************************)
EXTENDS Integers, Sequences, FiniteSets, TLC

\* ---------------------------------------------------------------- bounds
NConns == 3        \* connections accepted during a run
IdleTimeout == 0   \* ChatServer.idle_timeout, in clock ticks

Conns == 1..NConns
Reaper == NConns + 1
Main == NConns + 2
Threads == 1..(NConns + 1)
Free == 0
NoConn == 0
None == "None"
Names == {"alice", "bob"}
SP == " "

\* ------------------------------------------------- lines a client may send
LoginAlice == <<"LOGIN", SP, "alice">>
LoginBare == <<"LOGIN">>
LoginBlank == <<"LOGIN", SP>>
LoginBlanks == <<"LOGIN", SP, SP>>
LoginBob == <<"LOGIN", SP, "bob">>
MsgHi == <<"MSG", SP, "hi">>
Who == <<"WHO">>
DmAlice == <<"DM", SP, "alice", SP, "hi">>
Ping == <<"PING">>

\* the client closes its end of the connection
Close == <<"<close>">>

\* What the environment does in a run: for each connection, in the order
\* the connections are accepted, the lines its client sends (Close: it then
\* closes), whether the server is interrupted (stop() runs), and how far the
\* clock runs past the idle timeout.
Scene(cl, intr, tk) == [clients |-> cl, interrupt |-> intr, ticks |-> tk]

Scenarios ==
  { Scene(<< <<LoginAlice>>, <<LoginBob, MsgHi, DmAlice>> >>, FALSE, 1),
    Scene(<< <<LoginAlice>>, <<Ping, LoginAlice, Who>> >>, FALSE, 1),
    Scene(<< <<LoginAlice, Close>>, <<LoginBob, DmAlice>> >>, FALSE, 1),
    Scene(<< <<LoginAlice>>, <<LoginBob, DmAlice>> >>, TRUE, 1),
    Scene(<< <<LoginAlice, Ping>> >>, FALSE, 2),
    Scene(<< <<LoginBare, LoginBlank, LoginBlanks, LoginAlice>> >>, FALSE, 1),
    Scene(<< <<LoginAlice, MsgHi, DmAlice, Close>> >>, TRUE, 1) }

\* three clients ask for the same name
EvictScenarios ==
  { Scene(<< <<LoginAlice>>, <<LoginAlice>>, <<LoginAlice>> >>, FALSE, 1),
    Scene(<< <<LoginAlice, MsgHi, DmAlice, Close>> >>, TRUE, 1) }

\* two clients contend for a name and for the lock; one client is interrupted
FairScenarios ==
  { Scene(<< <<LoginAlice>>, <<LoginAlice, MsgHi>> >>, FALSE, 1),
    Scene(<< <<LoginAlice, Who, DmAlice, Close>> >>, TRUE, 1) }

\* ------------------------------------------------------- string functions
RECURSIVE LStrip(_)
LStrip(s) == IF s # <<>> /\ Head(s) = SP THEN LStrip(Tail(s)) ELSE s

RECURSIVE RStrip(_)
RStrip(s) ==
  IF s # <<>> /\ s[Len(s)] = SP THEN RStrip(SubSeq(s, 1, Len(s) - 1)) ELSE s

\* str.strip()
Strip(s) == RStrip(LStrip(s))

\* str.startswith(p)
StartsWith(s, p) == Len(s) >= Len(p) /\ SubSeq(s, 1, Len(p)) = p

\* s[n:]
From(s, n) == SubSeq(s, n + 1, Len(s))

\* index of the first blank of s, 0 when there is none
RECURSIVE FirstSP(_, _)
FirstSP(s, i) ==
  IF i > Len(s) THEN 0 ELSE IF s[i] = SP THEN i ELSE FirstSP(s, i + 1)

\* s.split(' ', 1)
Split1(s) ==
  LET i == FirstSP(s, 1)
  IN IF i = 0 THEN <<s>> ELSE <<SubSeq(s, 1, i - 1), From(s, i)>>

\* a run of tokens read as one word; the lines above put one token per word
Word(s) == IF Len(s) = 1 THEN s[1] ELSE "?"

\* ------------------------------------------------------- server -> client
\* src and seq are bookkeeping: the connection whose handling produced the
\* line and the number of the received line that caused it (0: none).
Out(kind, user, text, src, seq) ==
  [kind |-> kind, user |-> user, text |-> text, src |-> src, seq |-> seq]

\* ---------------------------------------------------------------- helpers
Range(f) == {f[x] : x \in DOMAIN f}

Drop(f, k) == [x \in (DOMAIN f) \ {k} |-> f[x]]

Put(f, k, v) == [x \in (DOMAIN f) \cup {k} |-> IF x = k THEN v ELSE f[x]]

\* the keys of a dict as a list
RECURSIVE Keys(_)
Keys(S) ==
  IF S = {} THEN <<>>
  ELSE LET m == CHOOSE x \in S : \A y \in S : x <= y
       IN <<m>> \o Keys(S \ {m})

NameOrder == <<"alice", "bob">>

InSet(S, x) == x \in S

\* the names of S as a list
NameKeys(S) == SelectSeq(NameOrder, LAMBDA n : InSet(S, n))

EmptyMap == [x \in {} |-> None]

VARIABLES
  running,            \* self.running
  mpc,                \* main thread: "serving", "stopping", "stopped"
  lock,               \* self.lock: Free or the thread holding it
  clients,            \* self.clients: connection -> username
  usernames,          \* self.usernames: username -> connection
  last_activity,      \* self.last_activity: connection -> time
  now,                \* time.time()
  pc,                 \* position of each handler thread and of the reaper
  username,           \* _handle_client's local username
  line,               \* the line a handler is processing
  target_conn,        \* _send_private's local target_conn
  sock,               \* socket: "open", "eof" (peer closed), "closed"
  wire,               \* lines delivered to each connection
  script,             \* the lines each client has still to send
  interrupt,          \* whether the main thread will be interrupted
  horizon,            \* the last clock value of the run
  nlines,             \* lines received so far on each connection
  current_time,       \* _check_idle_clients' local current_time
  clients_to_remove,  \* _check_idle_clients' local list of (conn, username)
  sends,              \* sends a thread performs inside its critical section
  idx,                \* next entry of sends
  op,                 \* what the critical section belongs to
  quiet               \* history: stale at the last scan, no line received since

vars ==
  <<running, mpc, lock, clients, usernames, last_activity, now, pc, username,
    line, target_conn, sock, wire, script, interrupt, horizon, nlines,
    current_time, clients_to_remove, sends, idx, op, quiet>>

Start(scenes) ==
  /\ \E sc \in scenes :
       /\ script = sc.clients
       /\ interrupt = sc.interrupt
       /\ horizon = IdleTimeout + sc.ticks
  /\ running = TRUE
  /\ mpc = "serving"
  /\ lock = Free
  /\ clients = EmptyMap
  /\ usernames = EmptyMap
  /\ last_activity = EmptyMap
  /\ now = 0
  /\ pc = [t \in Threads |-> IF t = Reaper THEN "top" ELSE "new"]
  /\ username = [c \in Conns |-> None]
  /\ line = [c \in Conns |-> <<>>]
  /\ target_conn = [c \in Conns |-> NoConn]
  /\ sock = [c \in Conns |-> "open"]
  /\ wire = [c \in Conns |-> <<>>]
  /\ nlines = [c \in Conns |-> 0]
  /\ current_time = 0
  /\ clients_to_remove = <<>>
  /\ sends = [t \in Threads |-> <<>>]
  /\ idx = [t \in Threads |-> 1]
  /\ op = [t \in Threads |-> "none"]
  /\ quiet = {}

Init == Start(Scenarios)

InitFair == Start(FairScenarios)

InitEvict == Start(EvictScenarios)

\* ------------------------------------------------------------------ _send
\* a send that overtakes the lines already sent
DeliverFront(w, c, m) ==
  IF sock[c] = "open" THEN [w EXCEPT ![c] = <<m>> \o @] ELSE w

\* conn.sendall: the line reaches the client when the socket is open; on a
\* closed or broken socket the exception is swallowed and nothing is sent.
Deliver(w, c, m) ==
  IF sock[c] = "open" THEN [w EXCEPT ![c] = Append(@, m)] ELSE w

\* ------------------------------------------------------- the main thread
Accept(c) ==
  /\ mpc = "serving"
  /\ running
  /\ pc[c] = "new"
  /\ c \in DOMAIN script
  /\ \A d \in Conns : d < c => pc[d] # "new"
  /\ pc' = [pc EXCEPT ![c] = "init"]
  /\ UNCHANGED <<running, mpc, lock, clients, usernames, last_activity, now,
                 username, line, target_conn, sock, wire, script, interrupt,
                 horizon, nlines, current_time, clients_to_remove, sends, idx,
                 op, quiet>>

\* _handle_client, lines 122-124
InitTouch(c) ==
  /\ pc[c] = "init"
  /\ lock = Free
  /\ last_activity' = Put(last_activity, c, now)
  /\ pc' = [pc EXCEPT ![c] = "login_recv"]
  /\ UNCHANGED <<running, mpc, lock, clients, usernames, now, username, line,
                 target_conn, sock, wire, script, interrupt, horizon, nlines,
                 current_time, clients_to_remove, sends, idx, op, quiet>>

\* the client closes its end
PeerClose(c) ==
  /\ pc[c] \notin {"new", "done"}
  /\ sock[c] = "open"
  /\ script[c] # <<>> /\ Head(script[c]) = Close
  /\ sock' = [sock EXCEPT ![c] = "eof"]
  /\ script' = [script EXCEPT ![c] = Tail(@)]
  /\ UNCHANGED <<running, mpc, lock, clients, usernames, last_activity, now,
                 pc, username, line, target_conn, wire, interrupt, horizon,
                 nlines, current_time, clients_to_remove, sends, idx, op,
                 quiet>>

\* conn.recv in either loop: a line, end of stream, an error on a socket the
\* server closed, or a timeout after which the loop sees running is false.
Recv(c, here, touch, out) ==
  /\ pc[c] = here
  /\ \/ /\ sock[c] = "open"
        /\ script[c] # <<>> /\ Head(script[c]) # Close
        /\ line' = [line EXCEPT ![c] = Head(script[c])]
        /\ script' = [script EXCEPT ![c] = Tail(@)]
        /\ nlines' = [nlines EXCEPT ![c] = @ + 1]
        /\ quiet' = quiet \ {c}
        /\ pc' = [pc EXCEPT ![c] = touch]
     \/ /\ sock[c] # "open" \/ ~running
        /\ pc' = [pc EXCEPT ![c] = out]
        /\ UNCHANGED <<line, script, nlines, quiet>>
  /\ UNCHANGED <<interrupt, horizon, running, mpc, lock, clients, usernames,
                 last_activity, now, username, target_conn, sock, wire,
                 current_time, clients_to_remove, sends, idx, op>>

\* with self.lock: self.last_activity[conn] = time.time()
Touch(c, here, next) ==
  /\ pc[c] = here
  /\ lock = Free
  /\ last_activity' = Put(last_activity, c, now)
  /\ pc' = [pc EXCEPT ![c] = next]
  /\ UNCHANGED <<running, mpc, lock, clients, usernames, now, username, line,
                 target_conn, sock, wire, script, interrupt, horizon, nlines,
                 current_time, clients_to_remove, sends, idx, op, quiet>>

LoginRecv(c) == Recv(c, "login_recv", "login_touch", "close_unauth")

LoginTouch(c) == Touch(c, "login_touch", "login_line")

MainRecv(c) == Recv(c, "main_recv", "main_touch", "rm_lock")

MainTouch(c) == Touch(c, "main_touch", "main_line")

\* ---------------------------------------------------------- _handle_login
\* the name a LOGIN line carries: line[6:].strip()
LoginName(s) == Strip(From(s, 2))

IsLogin(s) == StartsWith(s, <<"LOGIN", SP>>)

\* lines 209-216: the name is free exactly when it is no key of usernames
NameTaken(u) == u \in DOMAIN usernames

\* a login loop that drops a line that is no LOGIN
RefuseSilently(c) == wire

\* line 221: any other line is refused
Refuse(c) ==
  Deliver(wire, c, Out("ERR must-login-first", None, <<>>, c, nlines[c]))

\* lines 193-221, one received line of the login loop
LoginLine(c) ==
  LET s == Strip(line[c])
      u == Word(LoginName(s))
      reply(k) == Out(k, None, <<>>, c, nlines[c])
  IN
  /\ pc[c] = "login_line"
  /\ IF s = <<>>
       THEN /\ pc' = [pc EXCEPT ![c] = "login_recv"]
            /\ line' = [line EXCEPT ![c] = <<>>]
            /\ UNCHANGED <<lock, clients, usernames, wire, sends, op>>
     ELSE IF IsLogin(s) /\ LoginName(s) = <<>>
       THEN /\ wire' = Deliver(wire, c, reply("ERR invalid-username"))
            /\ pc' = [pc EXCEPT ![c] = "login_recv"]
            /\ line' = [line EXCEPT ![c] = <<>>]
            /\ UNCHANGED <<lock, clients, usernames, sends, op>>
     ELSE IF IsLogin(s)
       THEN /\ lock = Free
            /\ IF NameTaken(u)
                 THEN /\ lock' = c
                      /\ sends' = [sends EXCEPT ![c] =
                                     <<[to |-> c, msg |-> reply("ERR username-taken")]>>]
                      /\ op' = [op EXCEPT ![c] = "taken"]
                      /\ pc' = [pc EXCEPT ![c] = "locked"]
                      /\ line' = [line EXCEPT ![c] = <<>>]
                      /\ UNCHANGED <<clients, usernames, wire>>
                 ELSE /\ clients' = Put(clients, c, u)
                      /\ usernames' = Put(usernames, u, c)
                      /\ pc' = [pc EXCEPT ![c] = "login_ok"]
                      /\ UNCHANGED <<lock, line, wire, sends, op>>
     ELSE /\ wire' = Refuse(c)
          /\ pc' = [pc EXCEPT ![c] = "login_recv"]
          /\ line' = [line EXCEPT ![c] = <<>>]
          /\ UNCHANGED <<lock, clients, usernames, sends, op>>
  /\ UNCHANGED <<running, mpc, last_activity, now, username, target_conn,
                 sock, script, interrupt, horizon, nlines, current_time,
                 clients_to_remove, idx, quiet>>

\* lines 218-219 and 127: send OK, return the name to _handle_client
LoginOk(c) ==
  /\ pc[c] = "login_ok"
  /\ wire' = Deliver(wire, c, Out("OK", None, <<>>, c, nlines[c]))
  /\ username' = [username EXCEPT ![c] = Word(LoginName(Strip(line[c])))]
  /\ line' = [line EXCEPT ![c] = <<>>]
  /\ pc' = [pc EXCEPT ![c] = "main_recv"]
  /\ UNCHANGED <<running, mpc, lock, clients, usernames, last_activity, now,
                 target_conn, sock, script, interrupt, horizon, nlines,
                 current_time, clients_to_remove, sends, idx, op, quiet>>

\* lines 129-131: no name, close the connection and leave through finally
CloseUnauth(c) ==
  /\ pc[c] = "close_unauth"
  /\ sock' = [sock EXCEPT ![c] = "closed"]
  /\ pc' = [pc EXCEPT ![c] = "rm_lock"]
  /\ UNCHANGED <<running, mpc, lock, clients, usernames, last_activity, now,
                 username, line, target_conn, wire, script, interrupt,
                 horizon, nlines, current_time, clients_to_remove, sends, idx,
                 op, quiet>>

\* ------------------------------------------------------------- _broadcast
\* a snapshot that forgets the excluded connection
RecipientsAll(exclude) == Keys(DOMAIN clients)

\* line 274: list(self.clients.keys()) without the excluded connection
Recipients(exclude) ==
  SelectSeq(Keys(DOMAIN clients), LAMBDA r : r # exclude)

\* lines 273-279: the sends _broadcast performs while it holds the lock
BroadcastSends(m, exclude) ==
  LET R == Recipients(exclude)
  IN [i \in 1..Len(R) |-> [to |-> R[i], msg |-> m]]

\* lines 242-244: the sends WHO performs while it holds the lock
WhoSends(c) ==
  LET U == NameKeys(DOMAIN usernames)
  IN [i \in 1..Len(U) |->
        [to |-> c, msg |-> Out("USER", U[i], <<>>, c, nlines[c])]]

\* a lookup that takes the last registered name
LookupLast(to_user) ==
  usernames[NameKeys(DOMAIN usernames)[Cardinality(DOMAIN usernames)]]

\* line 288: the connection a DM goes to
LookupTarget(to_user) == usernames[to_user]

\* ------------------------------------------------------- _process_command
IsMsg(s) == StartsWith(s, <<"MSG", SP>>)

IsDm(s) == StartsWith(s, <<"DM", SP>>)

\* line 248: line[3:].strip().split(' ', 1)
DmParts(s) == Split1(Strip(From(s, 2)))

\* lines 153-158 and 231-262, one received line of the main loop; _broadcast,
\* WHO and _send_private enter their critical section in this step
MainLine(c) ==
  LET s == Strip(line[c])
      me == username[c]
      reply(k, u) == Out(k, u, <<>>, c, nlines[c])
      text == Strip(From(s, 2))
      parts == DmParts(s)
      enter(o, q) ==
        /\ lock = Free
        /\ lock' = c
        /\ sends' = [sends EXCEPT ![c] = q]
        /\ op' = [op EXCEPT ![c] = o]
        /\ pc' = [pc EXCEPT ![c] = "locked"]
        /\ line' = [line EXCEPT ![c] = <<>>]
        /\ UNCHANGED <<wire, target_conn>>
      back ==
        /\ pc' = [pc EXCEPT ![c] = "main_recv"]
        /\ line' = [line EXCEPT ![c] = <<>>]
        /\ UNCHANGED <<lock, sends, op, target_conn>>
  IN
  /\ pc[c] = "main_line"
  /\ IF s = <<>>
       THEN back /\ UNCHANGED wire
     ELSE IF IsMsg(s)
       THEN IF text # <<>>
              THEN enter("msg", BroadcastSends(Out("MSG", me, text, c, nlines[c]), c))
              ELSE back /\ UNCHANGED wire
     ELSE IF s = <<"WHO">>
       THEN enter("who", WhoSends(c))
     ELSE IF IsDm(s)
       THEN IF Len(parts) >= 2
              THEN IF Word(parts[1]) \notin DOMAIN usernames
                     THEN enter("dmerr", <<[to |-> c,
                            msg |-> reply("ERR user-not-found", Word(parts[1]))]>>)
                     ELSE /\ lock = Free
                          /\ target_conn' = [target_conn EXCEPT
                                               ![c] = LookupTarget(Word(parts[1]))]
                          /\ pc' = [pc EXCEPT ![c] = "dm_send"]
                          /\ UNCHANGED <<lock, sends, op, line, wire>>
              ELSE back /\ wire' = Deliver(wire, c, reply("ERR invalid-dm-format", None))
     ELSE IF s = <<"PING">>
       THEN back /\ wire' = Deliver(wire, c, reply("PONG", None))
     ELSE back /\ UNCHANGED wire
  /\ UNCHANGED <<running, mpc, clients, usernames, last_activity, now,
                 username, sock, script, interrupt, horizon, nlines,
                 current_time, clients_to_remove, idx, quiet>>

\* line 290: the DM is sent after the lock was released
DmSend(c) ==
  /\ pc[c] = "dm_send"
  /\ wire' = Deliver(wire, target_conn[c],
                     Out("DM", username[c], DmParts(Strip(line[c]))[2], c, nlines[c]))
  /\ target_conn' = [target_conn EXCEPT ![c] = NoConn]
  /\ line' = [line EXCEPT ![c] = <<>>]
  /\ pc' = [pc EXCEPT ![c] = "main_recv"]
  /\ UNCHANGED <<running, mpc, lock, clients, usernames, last_activity, now,
                 username, sock, script, interrupt, horizon, nlines,
                 current_time, clients_to_remove, sends, idx, op, quiet>>

\* ------------------------------------------- sends inside a critical section
\* a send whose failure ends the loop over the recipients
LockedSendAbort(t) ==
  /\ pc[t] = "locked"
  /\ lock = t
  /\ idx[t] <= Len(sends[t])
  /\ wire' = Deliver(wire, sends[t][idx[t]].to, sends[t][idx[t]].msg)
  /\ idx' = [idx EXCEPT ![t] = IF sock[sends[t][idx[t]].to] = "open"
                                  THEN @ + 1 ELSE Len(sends[t]) + 1]
  /\ UNCHANGED <<running, mpc, lock, clients, usernames, last_activity, now,
                 pc, username, line, target_conn, sock, script, interrupt,
                 horizon, nlines, current_time, clients_to_remove, sends, op,
                 quiet>>

\* one conn.sendall while the thread holds the lock
LockedSend(t) ==
  /\ pc[t] = "locked"
  /\ lock = t
  /\ idx[t] <= Len(sends[t])
  /\ wire' = Deliver(wire, sends[t][idx[t]].to, sends[t][idx[t]].msg)
  /\ idx' = [idx EXCEPT ![t] = @ + 1]
  /\ UNCHANGED <<running, mpc, lock, clients, usernames, last_activity, now,
                 pc, username, line, target_conn, sock, script, interrupt,
                 horizon, nlines, current_time, clients_to_remove, sends, op,
                 quiet>>

\* where a thread continues after its critical section
After(t) ==
  CASE op[t] = "taken" -> "login_recv"
    [] op[t] = "info" -> IF t = Reaper THEN "next" ELSE "done"
    [] OTHER -> "main_recv"

\* the end of the with block
Unlock(t) ==
  /\ pc[t] = "locked"
  /\ lock = t
  /\ idx[t] > Len(sends[t])
  /\ lock' = Free
  /\ sends' = [sends EXCEPT ![t] = <<>>]
  /\ idx' = [idx EXCEPT ![t] = 1]
  /\ op' = [op EXCEPT ![t] = "none"]
  /\ pc' = [pc EXCEPT ![t] = After(t)]
  /\ clients_to_remove' =
       IF t = Reaper THEN Tail(clients_to_remove) ELSE clients_to_remove
  /\ UNCHANGED <<running, mpc, clients, usernames, last_activity, now,
                 username, line, target_conn, sock, wire, script, interrupt,
                 horizon, nlines, current_time, quiet>>

\* --------------------------------------------------------- _remove_client
\* the arguments of the running _remove_client call
TdConn(t) == IF t = Reaper THEN clients_to_remove[1][1] ELSE t

TdUser(t) == IF t = Reaper THEN clients_to_remove[1][2] ELSE username[t]

\* lines 294-301: the three deletions, under the lock
RemoveEntries(conn, user) ==
  /\ clients' = IF conn \in DOMAIN clients THEN Drop(clients, conn) ELSE clients
  /\ usernames' = IF user # None /\ user \in DOMAIN usernames
                    THEN Drop(usernames, user) ELSE usernames
  /\ last_activity' = IF conn \in DOMAIN last_activity
                        THEN Drop(last_activity, conn) ELSE last_activity

\* a teardown that closes and broadcasts inside its with block
RmLockHeld(t) ==
  /\ pc[t] = "rm_lock"
  /\ lock = Free
  /\ lock' = t
  /\ RemoveEntries(TdConn(t), TdUser(t))
  /\ pc' = [pc EXCEPT ![t] = "rm_close"]
  /\ UNCHANGED <<running, mpc, now, username, line, target_conn, sock, wire,
                 script, interrupt, horizon, nlines, current_time,
                 clients_to_remove, sends, idx, op, quiet>>

RmLock(t) ==
  /\ pc[t] = "rm_lock"
  /\ lock = Free
  /\ RemoveEntries(TdConn(t), TdUser(t))
  /\ pc' = [pc EXCEPT ![t] = "rm_close"]
  /\ UNCHANGED <<running, mpc, lock, now, username, line, target_conn, sock,
                 wire, script, interrupt, horizon, nlines, current_time,
                 clients_to_remove, sends, idx, op, quiet>>

\* lines 303-310: close; without a name the call returns here
RmClose(t) ==
  /\ pc[t] = "rm_close"
  /\ sock' = [sock EXCEPT ![TdConn(t)] = "closed"]
  /\ IF TdUser(t) # None
       THEN /\ pc' = [pc EXCEPT ![t] = "rm_bcast"]
            /\ UNCHANGED clients_to_remove
       ELSE /\ pc' = [pc EXCEPT ![t] = IF t = Reaper THEN "next" ELSE "done"]
            /\ clients_to_remove' =
                 IF t = Reaper THEN Tail(clients_to_remove) ELSE clients_to_remove
  /\ UNCHANGED <<running, mpc, lock, clients, usernames, last_activity, now,
                 username, line, target_conn, wire, script, interrupt,
                 horizon, nlines, current_time, sends, idx, op, quiet>>

\* line 312: self._broadcast(f"INFO {username} disconnected")
RmBcast(t) ==
  /\ pc[t] = "rm_bcast"
  /\ lock = Free
  /\ lock' = t
  /\ sends' = [sends EXCEPT ![t] =
                 BroadcastSends(Out("INFO", TdUser(t), <<>>, TdConn(t), 0), NoConn)]
  /\ op' = [op EXCEPT ![t] = "info"]
  /\ pc' = [pc EXCEPT ![t] = "locked"]
  /\ UNCHANGED <<running, mpc, clients, usernames, last_activity, now,
                 username, line, target_conn, sock, wire, script, interrupt,
                 horizon, nlines, current_time, clients_to_remove, idx,
                 quiet>>

\* ---------------------------------------------------- _check_idle_clients
\* line 316: while self.running
RTop ==
  /\ pc[Reaper] = "top"
  /\ pc' = [pc EXCEPT ![Reaper] = IF running THEN "sleep" ELSE "exit"]
  /\ UNCHANGED <<running, mpc, lock, clients, usernames, last_activity, now,
                 username, line, target_conn, sock, wire, script, interrupt,
                 horizon, nlines, current_time, clients_to_remove, sends, idx,
                 op, quiet>>

\* lines 317-319: the sleep ends, current_time = time.time()
RWake ==
  /\ pc[Reaper] = "sleep"
  /\ current_time' = now
  /\ pc' = [pc EXCEPT ![Reaper] = "scan"]
  /\ UNCHANGED <<running, mpc, lock, clients, usernames, last_activity, now,
                 username, line, target_conn, sock, wire, script, interrupt,
                 horizon, nlines, clients_to_remove, sends, idx, op, quiet>>

\* line 324
IsStale(conn) == current_time - last_activity[conn] > IdleTimeout

Stale == {conn \in DOMAIN last_activity : IsStale(conn)}

\* line 325: self.clients.get(conn)
ClientsGet(conn) == IF conn \in DOMAIN clients THEN clients[conn] ELSE None

\* lines 322-326: the stale snapshot, under the lock
RScan ==
  /\ pc[Reaper] = "scan"
  /\ lock = Free
  /\ clients_to_remove' =
       LET K == Keys(Stale) IN [i \in 1..Len(K) |-> <<K[i], ClientsGet(K[i])>>]
  /\ quiet' = {conn \in Stale : pc[conn] \in {"login_recv", "main_recv"}}
  /\ pc' = [pc EXCEPT ![Reaper] = "next"]
  /\ UNCHANGED <<running, mpc, lock, clients, usernames, last_activity, now,
                 username, line, target_conn, sock, wire, script, interrupt,
                 horizon, nlines, current_time, sends, idx, op>>

\* the notice of lines 330-335: only a connection with a name gets it
Notice(w, conn, user) ==
  IF user # None
    THEN Deliver(w, conn, Out("ERR idle-timeout", None, <<>>, conn, 0))
    ELSE w

\* lines 329-336: the head of the loop, with the notice
RNext ==
  /\ pc[Reaper] = "next"
  /\ IF clients_to_remove = <<>>
       THEN /\ pc' = [pc EXCEPT ![Reaper] = "top"]
            /\ current_time' = 0
            /\ quiet' = {}
            /\ UNCHANGED wire
       ELSE /\ wire' = Notice(wire, TdConn(Reaper), TdUser(Reaper))
            /\ pc' = [pc EXCEPT ![Reaper] = "rm_lock"]
            /\ UNCHANGED <<current_time, quiet>>
  /\ UNCHANGED <<running, mpc, lock, clients, usernames, last_activity, now,
                 username, line, target_conn, sock, script, interrupt,
                 horizon, nlines, clients_to_remove, sends, idx, op>>

\* ------------------------------------------------------------------- stop
\* stop() as start()'s finally runs it.
\* line 94
StopFlag ==
  /\ mpc = "serving"
  /\ interrupt
  /\ running' = FALSE
  /\ mpc' = "stopping"
  /\ UNCHANGED <<lock, clients, usernames, last_activity, now, pc, username,
                 line, target_conn, sock, wire, script, interrupt, horizon,
                 nlines, current_time, clients_to_remove, sends, idx, op,
                 quiet>>

\* lines 97-104
StopClear ==
  /\ mpc = "stopping"
  /\ lock = Free
  /\ sock' = [c \in Conns |-> IF c \in DOMAIN clients THEN "closed" ELSE sock[c]]
  /\ clients' = EmptyMap
  /\ usernames' = EmptyMap
  /\ mpc' = "stopped"
  /\ UNCHANGED <<running, lock, last_activity, now, pc, username, line,
                 target_conn, wire, script, interrupt, horizon, nlines,
                 current_time, clients_to_remove, sends, idx, op, quiet>>

\* ------------------------------------------------------------------ clock
Tick ==
  /\ now < horizon
  /\ now' = now + 1
  /\ UNCHANGED <<running, mpc, lock, clients, usernames, last_activity, pc,
                 username, line, target_conn, sock, wire, script, interrupt,
                 horizon, nlines, current_time, clients_to_remove, sends, idx,
                 op, quiet>>

Next ==
  \/ \E c \in Conns :
       \/ Accept(c)
       \/ InitTouch(c)
       \/ PeerClose(c)
       \/ LoginRecv(c)
       \/ LoginTouch(c)
       \/ LoginLine(c)
       \/ LoginOk(c)
       \/ CloseUnauth(c)
       \/ MainRecv(c)
       \/ MainTouch(c)
       \/ MainLine(c)
       \/ DmSend(c)
  \/ \E t \in Threads :
       \/ LockedSend(t)
       \/ Unlock(t)
       \/ RmLock(t)
       \/ RmClose(t)
       \/ RmBcast(t)
  \/ RTop
  \/ RWake
  \/ RScan
  \/ RNext
  \/ StopFlag
  \/ StopClear
  \/ Tick

Spec == Init /\ [][Next]_vars

SpecEvict == InitEvict /\ [][Next]_vars

\* the steps of one handler thread, of the reaper thread and of stop(): the
\* threads are scheduled fairly, a send returns, a sleep ends
HandlerStep(c) ==
  \/ InitTouch(c) \/ LoginRecv(c) \/ LoginTouch(c) \/ LoginLine(c)
  \/ LoginOk(c) \/ CloseUnauth(c) \/ MainRecv(c) \/ MainTouch(c)
  \/ MainLine(c) \/ DmSend(c)
  \/ LockedSend(c) \/ Unlock(c) \/ RmLock(c) \/ RmClose(c) \/ RmBcast(c)

ReaperStep ==
  \/ RTop \/ RWake \/ RScan \/ RNext
  \/ LockedSend(Reaper) \/ Unlock(Reaper) \/ RmLock(Reaper)
  \/ RmClose(Reaper) \/ RmBcast(Reaper)

Fairness ==
  /\ \A c \in Conns : WF_vars(HandlerStep(c))
  /\ WF_vars(ReaperStep)
  /\ WF_vars(StopClear)

SpecFair == InitFair /\ [][Next]_vars /\ Fairness

\* ----------------------------------------------------------------- claims
Lines(r) == {wire[r][i] : i \in DOMAIN wire[r]}

GotOk(c) == \E m \in Lines(c) : m.kind = "OK"

Chat == {"MSG", "DM"}

\* the line a step delivers to r, if it delivers one
Gets(r) == Len(wire'[r]) = Len(wire[r]) + 1

Got(r) == wire'[r][Len(wire'[r])]

OnlyTo(r) == \A q \in Conns : q # r => wire'[q] = wire[q]

\* C1: of the sessions that ask for the same name at most one is answered OK
\* and bound to the name.
C1_OneLoginWins ==
  \A c, d \in Conns :
    (c # d /\ GotOk(c) /\ GotOk(d) /\ c \in DOMAIN clients /\ d \in DOMAIN clients)
      => clients[c] # clients[d]

\* C2: no two connections of the clients map carry the same username.
C2_UniqueUsernames ==
  \A c, d \in DOMAIN clients : c # d => clients[c] # clients[d]

\* C3: a session's teardown, run by the reaper and by its handler, sends each
\* remaining session at most one INFO <name> disconnected line.
C3_OneDisconnectNotice ==
  \A r, c \in Conns :
    Cardinality({i \in DOMAIN wire[r] :
                   wire[r][i].kind = "INFO" /\ wire[r][i].src = c}) <= 1

\* C4: when a reaper cycle ends, every session that was stale at its scan and
\* has received no line since is in none of clients, usernames, last_activity.
C4_EvictedWithinCycle ==
  (pc[Reaper] = "next" /\ clients_to_remove = <<>>)
    => \A c \in quiet :
         /\ c \notin DOMAIN clients
         /\ c \notin Range(usernames)
         /\ c \notin DOMAIN last_activity

Connected(r) == pc[r] \notin {"new", "done"} /\ sock[r] = "open"

Copies(r, m) == Cardinality({i \in DOMAIN wire[r] : wire[r][i] = m})

DmUser(c) == Word(DmParts(Strip(line[c]))[1])

DmCmd(c) ==
  /\ pc[c] = "main_line"
  /\ IsDm(Strip(line[c]))
  /\ Len(DmParts(Strip(line[c]))) >= 2

Command == {"MSG", "USER", "DM", "PONG", "ERR user-not-found",
            "ERR invalid-dm-format"}

\* every reply or delivery of a command comes from a session whose LOGIN
\* succeeded
C7_NoEffectBeforeLogin ==
  \A r \in Conns : \A m \in Lines(r) : m.kind \in Command => username[m.src] # None

NotLogin(c) ==
  /\ pc[c] = "login_line"
  /\ Strip(line[c]) # <<>>
  /\ ~IsLogin(Strip(line[c]))

\* C7: while a session is unauthenticated, a line that is no LOGIN is answered
\* ERR must-login-first, leaves the session unauthenticated and clients and
\* usernames unchanged, and no command has an effect before the login.
C7_MustLoginFirst ==
  /\ []C7_NoEffectBeforeLogin
  /\ [][\A c \in Conns :
          (NotLogin(c) /\ pc'[c] # pc[c])
            => /\ pc'[c] = "login_recv"
               /\ username'[c] = None
               /\ clients' = clients
               /\ usernames' = usernames
               /\ OnlyTo(c)
               /\ sock[c] = "open"
                    => Gets(c) /\ Got(c).kind = "ERR must-login-first"]_vars

\* C8: WHO lists each logged-in session's name exactly once and no other.
C8_WhoListsLoggedIn ==
  \A c \in Conns :
    (lock = c /\ op[c] = "who")
      => /\ Len(sends[c]) = Cardinality(DOMAIN clients)
         /\ {sends[c][i].msg.user : i \in DOMAIN sends[c]} = Range(clients)

\* C9: a broadcast does not hold the registry lock while it sends.
C9_SendsOutsideLock ==
  \A t \in Threads :
    (op[t] \in {"msg", "info"} /\ idx[t] <= Len(sends[t])) => lock # t

\* C10: the MSG and DM lines of one sender reach a recipient in the order in
\* which the sender's lines were processed.
C10_SenderOrder ==
  \A r \in Conns : \A i, j \in DOMAIN wire[r] :
    (i < j /\ wire[r][i].kind \in Chat /\ wire[r][j].kind \in Chat
       /\ wire[r][i].src = wire[r][j].src)
      => wire[r][i].seq < wire[r][j].seq

Tracked == DOMAIN clients \cup DOMAIN last_activity

\* C11: when stop() returns, running is false, every tracked connection,
\* authenticated or not, is closed, and clients, usernames and last_activity
\* are empty.
C11_StopLeavesNothing ==
  [][(mpc # "stopped" /\ mpc' = "stopped")
       => /\ ~running'
          /\ \A c \in Tracked : sock'[c] = "closed"
          /\ DOMAIN clients' = {}
          /\ DOMAIN usernames' = {}
          /\ DOMAIN last_activity' = {}]_vars

\* C12: for every session of the stale snapshot, named or not, the reaper
\* sends ERR idle-timeout to its connection and then goes on to tear it down,
\* whether or not the send succeeds.
C12_NoticeBeforeTeardown ==
  [][(pc[Reaper] = "next" /\ clients_to_remove # <<>> /\ pc'[Reaper] # "next")
       => LET conn == clients_to_remove[1][1]
          IN /\ pc'[Reaper] = "rm_lock"
             /\ sock[conn] = "open"
                  => Gets(conn) /\ Got(conn).kind = "ERR idle-timeout"]_vars

NoName == {LoginBare, LoginBlank, LoginBlanks}

\* C13: in the login phase the lines LOGIN, LOGIN followed by one blank and
\* LOGIN followed by blanks are answered ERR invalid-username, and the session
\* stays unauthenticated with no username bound.
C13_EmptyNameRefused ==
  [][\A c \in Conns :
       (pc[c] = "login_line" /\ line[c] \in NoName /\ pc'[c] # pc[c])
         => /\ username'[c] = None
            /\ clients' = clients
            /\ usernames' = usernames
            /\ sock[c] = "open"
                 => Gets(c) /\ Got(c).kind = "ERR invalid-username"]_vars

Bcast == {"msg", "info"}

\* C14: a send of a broadcast that fails delivers no line to anyone, leaves
\* clients, usernames and last_activity unchanged and leaves the broadcasting
\* thread in its loop; the loop serves the recipients of the snapshot one by
\* one and ends only after the last of them.
C14_SendFailureContained ==
  [][\A t \in Threads :
       (op[t] \in Bcast /\ lock = t)
         => /\ idx'[t] # idx[t] /\ op'[t] = op[t]
                 => LET q == sends[t][idx[t]]
                    IN /\ idx'[t] = idx[t] + 1
                       /\ sends'[t] = sends[t]
                       /\ pc'[t] = pc[t]
                       /\ sock[q.to] = "open"
                            => Gets(q.to) /\ Got(q.to) = q.msg /\ OnlyTo(q.to)
                       /\ sock[q.to] # "open"
                            => /\ wire' = wire
                               /\ clients' = clients
                               /\ usernames' = usernames
                               /\ last_activity' = last_activity
            /\ op'[t] # op[t] => idx[t] > Len(sends[t])]_vars

\* C15: whenever the lock is free, clients and usernames are mutual inverses:
\* clients[c] = u exactly if usernames[u] = c.
C15_MapsAreInverses ==
  lock = Free
    => /\ \A c \in DOMAIN clients :
            clients[c] \in DOMAIN usernames /\ usernames[clients[c]] = c
       /\ \A u \in DOMAIN usernames :
            usernames[u] \in DOMAIN clients /\ clients[usernames[u]] = u

\* a connection that is closed and has no entry in any of the three maps; a
\* handler closes its own connection only on its way out, so while the handler
\* still runs this is a connection the reaper tore down
TornDown(c) ==
  /\ sock[c] = "closed"
  /\ c \notin DOMAIN clients
  /\ c \notin Range(usernames)
  /\ c \notin DOMAIN last_activity

\* C16: once the reaper has torn a connection down (removed and closed), no
\* later step puts it back into clients, usernames or last_activity.
C16_NoReinsertion ==
  [][\A c \in Conns :
       TornDown(c)
         => /\ c \notin DOMAIN clients'
            /\ c \notin Range(usernames')
            /\ c \notin DOMAIN last_activity']_vars

\* INFO <name> disconnected of session c has reached some client
Announced(c) ==
  \E r \in Conns : \E m \in Lines(r) : m.kind = "INFO" /\ m.src = c

\* C17: once INFO <name> disconnected was broadcast for a session, no MSG or
\* DM line of that session is delivered to any client.
C17_SilentAfterInfo ==
  [][\A r \in Conns :
       (Gets(r) /\ Got(r).kind \in Chat) => ~Announced(Got(r).src)]_vars

\* C18: a session the reaper tears down is still stale when _remove_client
\* removes it: one whose last_activity was refreshed after the snapshot is
\* not evicted.
C18_StillStaleAtTeardown ==
  [][(pc[Reaper] = "rm_lock" /\ pc'[Reaper] # "rm_lock")
       => LET conn == clients_to_remove[1][1]
          IN conn \in DOMAIN last_activity
               => now - last_activity[conn] > IdleTimeout]_vars

\* the positions at which a thread's next step takes the lock
Waiting(t) ==
  \/ pc[t] \in {"init", "login_touch", "main_touch", "rm_lock", "rm_bcast", "scan"}
  \/ pc[t] = "login_line" /\ IsLogin(Strip(line[t]))
  \/ /\ pc[t] = "main_line"
     /\ \/ IsMsg(Strip(line[t])) /\ Strip(From(Strip(line[t]), 2)) # <<>>
        \/ Strip(line[t]) = Who
        \/ DmCmd(t)

\* a thread holds the lock only inside a with block, where it sends and
\* takes no lock
C19_NoReentry == \A t \in Threads : lock = t => pc[t] = "locked"

\* C19: no thread takes the lock while it holds it; with sends that return
\* and fair scheduling no thread holds the lock forever and no thread waits
\* for it forever: again and again the lock is free while no thread waits for
\* it and stop() is not inside its with block.
C19_NoLockDeadlock ==
  /\ []C19_NoReentry
  /\ []<>(/\ lock = Free
          /\ \A t \in Threads : ~Waiting(t)
          /\ mpc # "stopping")

C7_Witness ==
  \E c \in Conns :
    /\ username[c] = None
    /\ \E m \in Lines(c) : m.kind = "ERR must-login-first"

\* a recipient holds two chat lines of one other sender
C10_Witness ==
  \E r \in Conns : \E i, j \in DOMAIN wire[r] :
    /\ i < j
    /\ wire[r][i].kind \in Chat /\ wire[r][j].kind \in Chat
    /\ wire[r][i].src = wire[r][j].src
    /\ wire[r][i].src # r
\* a broadcast went on to deliver to a later recipient after a send to an
\* earlier recipient of its snapshot had failed
C14_Witness ==
  \E t \in Threads :
    /\ lock = t
    /\ op[t] \in Bcast
    /\ \E i, j \in DOMAIN sends[t] :
         /\ i < j /\ j < idx[t]
         /\ sends[t][i].msg \notin Lines(sends[t][i].to)
         /\ sends[t][j].msg \in Lines(sends[t][j].to)
\* a thread waits for the lock while another thread holds it
C19_Witness ==
  \E t, u \in Threads : t # u /\ lock = u /\ Waiting(t)
====
